---------------------------- MODULE Spec2Model ----------------------------
(***************************************************************************)
(* Model of the searchSECO parser orchestrator (src/src/Parser.ts):        *)
(* the tree walker getAllFiles, the classifier getFileNameAndLanguage and   *)
(* the static, asynchronous Parser.ParseFiles with its process-wide        *)
(* registry Parser.parsers.  Strings are sequences of one-character        *)
(* strings, so that replace, split, toLowerCase and the walker's regular   *)
(* expression are computed as JavaScript computes them.                    *)
(***************************************************************************)
EXTENDS Integers, Sequences, FiniteSets, TLC

(***************************************************************************)
(* Bounds of the model                                                     *)
(***************************************************************************)
\* largest number of directory entries of a scanned tree
MaxNodes == 3
\* largest number of entries a backend queue may hold when a run starts
MaxQueue == 2
\* largest number of Parse() calls of abandoned runs in flight per backend
MaxOrphans == 1

(***************************************************************************)
(* JavaScript string primitives                                            *)
(***************************************************************************)
\* s.startsWith(p, i) with 1-based i
MatchAt(s, p, i) ==
    /\ i + Len(p) - 1 <= Len(s)
    /\ \A k \in 1..Len(p) : s[i + k - 1] = p[k]

\* 1-based s.indexOf(p), 0 when p does not occur
IndexOf(s, p) ==
    LET hits == {i \in 1..(Len(s) + 1) : MatchAt(s, p, i)}
    IN  IF hits = {} THEN 0 ELSE CHOOSE i \in hits : \A j \in hits : i <= j

\* s.replace(p, r) with a string pattern: the first occurrence only
StrReplace(s, p, r) ==
    LET i == IndexOf(s, p)
    IN  IF i = 0 THEN s
        ELSE SubSeq(s, 1, i - 1) \o r \o SubSeq(s, i + Len(p), Len(s))

\* s.split(c).pop(): the text after the last c, all of s when c is absent
SplitPop(s, c) ==
    LET dots == {i \in 1..Len(s) : s[i] = c}
    IN  IF dots = {} THEN s
        ELSE LET last == CHOOSE i \in dots : \A j \in dots : j <= i
             IN  SubSeq(s, last + 1, Len(s))

UpperToLower ==
    [ch \in {"A", "C", "E", "J", "P", "S", "V", "Y"} |->
        CASE ch = "A" -> "a" [] ch = "C" -> "c" [] ch = "E" -> "e"
          [] ch = "J" -> "j" [] ch = "P" -> "p" [] ch = "S" -> "s"
          [] ch = "V" -> "v" [] ch = "Y" -> "y"]

\* s.toLowerCase()
ToLowerCase(s) ==
    [i \in 1..Len(s) |->
        IF s[i] \in DOMAIN UpperToLower THEN UpperToLower[s[i]] ELSE s[i]]

\* /^.git/.test(name): one arbitrary character followed by "git"
GitRegexTest(name) ==
    /\ Len(name) >= 4
    /\ SubSeq(name, 2, 4) = <<"g", "i", "t">>

\* s.split(c)
RECURSIVE SplitOn(_, _)
SplitOn(s, c) ==
    LET i == IndexOf(s, <<c>>)
    IN  IF i = 0 THEN <<s>>
        ELSE <<SubSeq(s, 1, i - 1)>> \o SplitOn(SubSeq(s, i + 1, Len(s)), c)

\* segs.join(c)
RECURSIVE JoinWith(_, _)
JoinWith(segs, c) ==
    IF segs = <<>> THEN <<>>
    ELSE IF Len(segs) = 1 THEN segs[1]
    ELSE segs[1] \o <<c>> \o JoinWith(Tail(segs), c)

\* POSIX path.normalize on paths without "..": empty and "." segments go
IsSegment(g) == g # <<>> /\ g # <<".">>

Normalize(p) ==
    LET body == JoinWith(SelectSeq(SplitOn(p, "/"), IsSegment), "/")
    IN  IF Len(p) > 0 /\ p[1] = "/" THEN <<"/">> \o body
        ELSE IF body = <<>> THEN <<".">>
        ELSE body

\* POSIX path.join(dir, name)
PathJoin(dir, name) ==
    Normalize(IF dir = <<>> THEN name ELSE dir \o <<"/">> \o name)

(***************************************************************************)
(* Languages and the registry                                              *)
(***************************************************************************)
CPP == "C++"
CSHARP == "C#"
JAVA == "Java"
PYTHON == "Python"
JS == "Javascript"
\* the classifier's `undefined`
NoLang == "undefined"

\* Parser.parsers in insertion order
ParserOrder == <<JS, PYTHON, CPP, CSHARP, JAVA>>
Language == {ParserOrder[i] : i \in 1..Len(ParserOrder)}


(***************************************************************************)
(* The classifier                                                          *)
(***************************************************************************)
getFileNameAndLanguage(filepath, basePath) ==
    LET filename == StrReplace(filepath, basePath, <<".">>)
        ext == ToLowerCase(SplitPop(filename, "."))
    IN  [filename |-> filename,
         lang |-> CASE ext = <<"p", "y">> -> PYTHON
                    [] ext = <<"j", "s">> -> JS
                    [] ext = <<"c", "p", "p">> -> CPP
                    [] ext = <<"c", "s">> -> CSHARP
                    [] ext = <<"j", "a", "v", "a">> -> JAVA
                    [] OTHER -> NoLang]

(***************************************************************************)
(* The file system: a catalogue of entries; a tree is a set of them that   *)
(* contains the parent of each of its members.  Entry 0 is the root, a      *)
(* directory that can be listed.  A race names the entries that vanish     *)
(* during a walk: those whose statSync throws and the directories whose    *)
(* readdirSync throws after statSync had succeeded.                        *)
(***************************************************************************)
Entries ==
    <<[name |-> <<".", "g", "i", "t">>, isDirectory |-> TRUE, parent |-> 0],
      [name |-> <<"h", ".", "j", "s">>, isDirectory |-> FALSE, parent |-> 1],
      [name |-> <<"a", ".", "j", "s">>, isDirectory |-> FALSE, parent |-> 0],
      [name |-> <<"a", "g", "i", "t", ".", "j", "s">>, isDirectory |-> FALSE, parent |-> 0],
      [name |-> <<"b", ".", "p", "y">>, isDirectory |-> FALSE, parent |-> 0],
      [name |-> <<"c", ".", "t", "x", "t">>, isDirectory |-> FALSE, parent |-> 0],
      [name |-> <<"d">>, isDirectory |-> TRUE, parent |-> 0],
      [name |-> <<"e", ".", "C", "P", "P">>, isDirectory |-> FALSE, parent |-> 7],
      [name |-> <<"m", ".", "j", "s">>, isDirectory |-> FALSE, parent |-> 0]>>

EntryIds == 1..Len(Entries)

\* the directory every run scans
BasePath == <<"/", "r">>

Trees ==
    {t \in SUBSET EntryIds :
        /\ Cardinality(t) <= MaxNodes
        /\ \A n \in t : Entries[n].parent = 0 \/ Entries[n].parent \in t}

\* fs.readdirSync(dir): the entries of directory d, in listing order
RECURSIVE SortedSeq(_)
SortedSeq(S) ==
    IF S = {} THEN <<>>
    ELSE LET m == CHOOSE x \in S : \A y \in S : x <= y
         IN  <<m>> \o SortedSeq(S \ {m})

readdirSync(t, d) == SortedSeq({n \in t : Entries[n].parent = d})

(***************************************************************************)
(* The walker                                                              *)
(***************************************************************************)
\* no entry vanishes during the walk
NoRace == [stat |-> {}, list |-> {}]

\* a walker that pushes what the nested call returns onto the list the
\* nested call has filled
RECURSIVE recursivelyGetFilesConcat(_, _, _, _, _)
recursivelyGetFilesConcat(t, race, files, currDir, acc) ==
    IF files = <<>> THEN acc
    ELSE LET n == Head(files)
             abs_path == PathJoin(currDir, Entries[n].name)
             sub == recursivelyGetFilesConcat(t, race, readdirSync(t, n),
                                              abs_path, acc)
             acc1 == IF GitRegexTest(Entries[n].name) THEN acc
                     ELSE IF n \in race.stat THEN acc
                     ELSE IF Entries[n].isDirectory
                          THEN IF n \in race.list THEN acc ELSE sub \o sub
                          ELSE Append(acc, abs_path)
         IN  recursivelyGetFilesConcat(t, race, Tail(files), currDir, acc1)

\* a walker whose try block encloses the forEach: a throw ends the listing
\* of the directory
RECURSIVE recursivelyGetFilesTryOutside(_, _, _, _, _)
recursivelyGetFilesTryOutside(t, race, files, currDir, acc) ==
    IF files = <<>> THEN acc
    ELSE LET n == Head(files)
             abs_path == PathJoin(currDir, Entries[n].name)
         IN  IF GitRegexTest(Entries[n].name)
             THEN recursivelyGetFilesTryOutside(t, race, Tail(files), currDir, acc)
             ELSE IF n \in race.stat \/ (Entries[n].isDirectory /\ n \in race.list)
             THEN acc
             ELSE recursivelyGetFilesTryOutside(t, race, Tail(files), currDir,
                      IF Entries[n].isDirectory
                      THEN recursivelyGetFilesTryOutside(t, race, readdirSync(t, n),
                                                         abs_path, acc)
                      ELSE Append(acc, abs_path))

\* the forEach of recursivelyGetFiles over the listing `files` of currDir;
\* a throw of statSync or of the readdirSync of the nested call is caught
\* by the callback of the entry, which returns acc as it is
RECURSIVE recursivelyGetFiles(_, _, _, _, _)
recursivelyGetFiles(t, race, files, currDir, acc) ==
    IF files = <<>> THEN acc
    ELSE LET n == Head(files)
             abs_path == PathJoin(currDir, Entries[n].name)
             acc1 == IF GitRegexTest(Entries[n].name) THEN acc
                     ELSE IF n \in race.stat THEN acc
                     ELSE IF Entries[n].isDirectory
                          THEN IF n \in race.list THEN acc
                               ELSE recursivelyGetFiles(t, race, readdirSync(t, n),
                                                        abs_path, acc)
                          ELSE Append(acc, abs_path)
         IN  recursivelyGetFiles(t, race, Tail(files), currDir, acc1)

\* the directories below the root that the walk of the listing `files`
\* calls readdirSync on, in the order of the calls
RECURSIVE readdirCalls(_, _, _)
readdirCalls(t, race, files) ==
    IF files = <<>> THEN <<>>
    ELSE LET n == Head(files)
             own == IF GitRegexTest(Entries[n].name) THEN <<>>
                    ELSE IF n \in race.stat THEN <<>>
                    ELSE IF ~Entries[n].isDirectory THEN <<>>
                    ELSE IF n \in race.list THEN <<n>>
                    ELSE <<n>> \o readdirCalls(t, race, readdirSync(t, n))
         IN  own \o readdirCalls(t, race, Tail(files))

getAllFiles(t, race, dir) ==
    recursivelyGetFiles(t, race, readdirSync(t, 0),
                        StrReplace(dir, <<"\\">>, <<"/">>), <<>>)

(***************************************************************************)
(* The backends (IParser): a queue filled by AddFile and emptied by the    *)
(* Parse() call that completes.  One function is found in every file.      *)
(***************************************************************************)
AddFile(buffer, fileName, basePath) ==
    Append(buffer, [fileName |-> fileName, basePath |-> basePath])

\* the files whose content cannot be extracted
Malformed == {<<"m", ".", "j", "s">>}

\* the records a backend extracts from one queued file: none from a file it
\* cannot extract, which it skips
Extract(lang, entry) ==
    IF SplitPop(entry.fileName, "/") \in Malformed THEN <<>>
    ELSE <<[fileName |-> entry.fileName, languageTag |-> lang, name |-> <<"f">>]>>

\* a backend that gives up its batch at a file it cannot extract
ParseResultAllOrNothing(lang, snap) ==
    IF \E i \in 1..Len(snap) : Extract(lang, snap[i]) = <<>> THEN <<>>
    ELSE [i \in 1..Len(snap) |-> Extract(lang, snap[i])[1]]

RECURSIVE ParseResult(_, _)
ParseResult(lang, snap) ==
    IF snap = <<>> THEN <<>>
    ELSE Extract(lang, Head(snap)) \o ParseResult(lang, Tail(snap))

\* p.Parse() up to its first suspension: the call takes the queue as it is;
\* on an empty queue it returns at once with no records
ParseCall(buffer) ==
    IF buffer = <<>> THEN [st |-> "ok", data |-> <<>>]
    ELSE [st |-> "pending", data |-> buffer]

NoCall == [st |-> "none", data |-> <<>>]

(***************************************************************************)
(* The orchestrator: every caller runs Parser.ParseFiles again and again   *)
(***************************************************************************)
Callers == {"A", "B"}
NoCaller == "none"

\* the promise ParseFiles returned: pending, fulfilled or rejected
Pending == [kind |-> "pending", filenames |-> <<>>, result |-> <<>>]
Rejected == [kind |-> "rejected", filenames |-> <<>>, result |-> <<>>]
Fulfilled(names, records) ==
    [kind |-> "fulfilled", filenames |-> names, result |-> records]

VARIABLES
    pc,         \* per caller: where its ParseFiles call stands
    tree,       \* per caller: the directory tree its run scans
    fresh,      \* per caller: every backend queue was empty when the run began
    files,      \* per caller: the walker's output
    fileIdx,    \* per caller: position of files.forEach
    parserIdx,  \* per caller: position of the map over Parser.parsers.values()
    filenames,  \* per caller: the run's filenames array
    calls,      \* per caller and language: the Parse() promise of this run
    issued,     \* per caller and language: Parse() invocations of this run
    promise,    \* per caller: the promise ParseFiles returned
    after,      \* per caller: the callers whose fulfilled run ended before this run began
    queue,      \* per language: the backend's queue
    orphans,    \* per language: pending Parse() calls of runs the caller let go
    active,     \* the caller whose synchronous code is executing
    parsers,    \* the languages Parser.parsers has a backend for
    probe       \* a call of the walker or of the classifier on its own

vars == <<pc, tree, fresh, files, fileIdx, parserIdx, filenames, calls, issued,
          promise, after, queue, orphans, active, parsers, probe>>

\* no call of the walker or of the classifier on its own
NoProbe == [op |-> "none"]

\* no run has begun
InitRuns ==
    /\ pc = [c \in Callers |-> "idle"]
    /\ tree = [c \in Callers |-> {}]
    /\ fresh = [c \in Callers |-> TRUE]
    /\ files = [c \in Callers |-> <<>>]
    /\ fileIdx = [c \in Callers |-> 1]
    /\ parserIdx = [c \in Callers |-> 1]
    /\ filenames = [c \in Callers |-> <<>>]
    /\ calls = [c \in Callers |-> [l \in Language |-> NoCall]]
    /\ issued = [c \in Callers |-> [l \in Language |-> 0]]
    /\ promise = [c \in Callers |-> Pending]
    /\ after = [c \in Callers |-> {}]
    /\ queue = [l \in Language |-> <<>>]
    /\ orphans = [l \in Language |-> 0]
    /\ active = NoCaller

\* the registry as the static initialiser builds it
Init ==
    /\ InitRuns
    /\ parsers = Language
    /\ probe = NoProbe

\* getAllFiles(basePath) for every tree
Walked == [t \in Trees |-> getAllFiles(t, NoRace, BasePath)]

\* the number of files of tree t that a run enqueues on the backend of l
Routed ==
    [t \in Trees |-> [l \in Language |->
        Cardinality({i \in 1..Len(Walked[t]) :
            getFileNameAndLanguage(Walked[t][i], BasePath).lang = l})]]

\* Parser.parsers.get(lang) finds a backend
HasParser(lang) == lang \in parsers

\* Array.from(Parser.parsers.values()), by language
Registered == SelectSeq(ParserOrder, HasParser)

\* the state bound under which a new run is started
WithinBounds(t) ==
    \A l \in Language : Len(queue[l]) + Routed[t][l] <= MaxQueue

\* ParseFiles(basePath), lines 87-93: the walk
StartRun(c, t) ==
    /\ active = NoCaller
    /\ pc[c] = "idle"
    /\ WithinBounds(t)
    /\ tree' = [tree EXCEPT ![c] = t]
    /\ fresh' = [fresh EXCEPT ![c] = \A l \in Language : queue[l] = <<>>]
    /\ after' = [after EXCEPT ![c] =
                    {e \in Callers \ {c} : promise[e].kind = "fulfilled"}]
    /\ files' = [files EXCEPT ![c] = Walked[t]]
    /\ fileIdx' = [fileIdx EXCEPT ![c] = 1]
    /\ pc' = [pc EXCEPT ![c] = IF Walked[t] = <<>> THEN "issue" ELSE "route"]
    /\ active' = c
    /\ UNCHANGED <<parserIdx, filenames, calls, issued, promise, queue, orphans>>
    /\ UNCHANGED <<parsers, probe>>

\* the plausible slip of the routing loop: the name is pushed before the
\* language is looked at
RouteFileAlwaysPush(c) ==
    /\ active = c
    /\ pc[c] = "route"
    /\ LET r == getFileNameAndLanguage(files[c][fileIdx[c]], BasePath)
       IN  /\ filenames' = [filenames EXCEPT ![c] = Append(@, r.filename)]
           /\ IF r.lang = NoLang \/ ~HasParser(r.lang)
              THEN UNCHANGED queue
              ELSE queue' = [queue EXCEPT
                               ![r.lang] = AddFile(@, r.filename, BasePath)]
    /\ fileIdx' = [fileIdx EXCEPT ![c] = @ + 1]
    /\ pc' = [pc EXCEPT ![c] = IF fileIdx[c] = Len(files[c]) THEN "issue" ELSE @]
    /\ UNCHANGED <<tree, fresh, files, parserIdx, calls, issued, promise, after,
                   orphans, active>>
    /\ UNCHANGED <<parsers, probe>>

\* the plausible slip of the routing loop: the backend parses as soon as
\* a file is added
RouteFileThenParse(c) ==
    /\ active = c
    /\ pc[c] = "route"
    /\ LET r == getFileNameAndLanguage(files[c][fileIdx[c]], BasePath)
       IN  IF r.lang = NoLang
           THEN UNCHANGED <<filenames, queue, calls, issued>>
           ELSE /\ filenames' = [filenames EXCEPT ![c] = Append(@, r.filename)]
                /\ queue' = [queue EXCEPT
                               ![r.lang] = AddFile(@, r.filename, BasePath)]
                /\ calls' = [calls EXCEPT ![c][r.lang] =
                               ParseCall(AddFile(queue[r.lang], r.filename, BasePath))]
                /\ issued' = [issued EXCEPT ![c][r.lang] = @ + 1]
    /\ fileIdx' = [fileIdx EXCEPT ![c] = @ + 1]
    /\ pc' = [pc EXCEPT ![c] = IF fileIdx[c] = Len(files[c]) THEN "joined" ELSE @]
    /\ active' = IF fileIdx[c] = Len(files[c]) THEN NoCaller ELSE active
    /\ UNCHANGED <<tree, fresh, files, parserIdx, promise, after, orphans>>
    /\ UNCHANGED <<parsers, probe>>

\* one iteration of files.forEach, lines 94-110
\* a routing loop that puts the file at the head of the queue
RouteFileFront(c) ==
    /\ active = c
    /\ pc[c] = "route"
    /\ LET r == getFileNameAndLanguage(files[c][fileIdx[c]], BasePath)
       IN  IF r.lang = NoLang
           THEN UNCHANGED <<filenames, queue>>
           ELSE /\ filenames' = [filenames EXCEPT ![c] = Append(@, r.filename)]
                /\ IF ~HasParser(r.lang)
                   THEN UNCHANGED queue
                   ELSE queue' = [queue EXCEPT ![r.lang] =
                            <<[fileName |-> r.filename, basePath |-> BasePath]>> \o @]
    /\ fileIdx' = [fileIdx EXCEPT ![c] = @ + 1]
    /\ pc' = [pc EXCEPT ![c] = IF fileIdx[c] = Len(files[c]) THEN "issue" ELSE @]
    /\ UNCHANGED <<tree, fresh, files, parserIdx, calls, issued, promise, after,
                   orphans, active>>
    /\ UNCHANGED <<parsers, probe>>

\* a registry whose three XMLParser entries are one instance: a file of
\* one of their languages is in the queue of all three
RouteFileSharedInstance(c) ==
    /\ active = c
    /\ pc[c] = "route"
    /\ LET r == getFileNameAndLanguage(files[c][fileIdx[c]], BasePath)
       IN  IF r.lang = NoLang
           THEN UNCHANGED <<filenames, queue>>
           ELSE /\ filenames' = [filenames EXCEPT ![c] = Append(@, r.filename)]
                /\ queue' = [l \in Language |->
                       IF l = r.lang \/ {l, r.lang} \subseteq {CPP, CSHARP, JAVA}
                       THEN AddFile(queue[l], r.filename, BasePath)
                       ELSE queue[l]]
    /\ fileIdx' = [fileIdx EXCEPT ![c] = @ + 1]
    /\ pc' = [pc EXCEPT ![c] = IF fileIdx[c] = Len(files[c]) THEN "issue" ELSE @]
    /\ UNCHANGED <<tree, fresh, files, parserIdx, calls, issued, promise, after,
                   orphans, active>>
    /\ UNCHANGED <<parsers, probe>>

\* the plausible slip of the lookup: the backend is looked up before the
\* name is pushed
RouteFileRegisteredOnly(c) ==
    /\ active = c
    /\ pc[c] = "route"
    /\ LET r == getFileNameAndLanguage(files[c][fileIdx[c]], BasePath)
       IN  IF r.lang = NoLang \/ ~HasParser(r.lang)
           THEN UNCHANGED <<filenames, queue>>
           ELSE /\ filenames' = [filenames EXCEPT ![c] = Append(@, r.filename)]
                /\ queue' = [queue EXCEPT
                                ![r.lang] = AddFile(@, r.filename, BasePath)]
    /\ fileIdx' = [fileIdx EXCEPT ![c] = @ + 1]
    /\ pc' = [pc EXCEPT ![c] = IF fileIdx[c] = Len(files[c]) THEN "issue" ELSE @]
    /\ UNCHANGED <<tree, fresh, files, parserIdx, calls, issued, promise, after,
                   orphans, active>>
    /\ UNCHANGED <<parsers, probe>>

\* a routing loop that puts the name at the head of filenames
RouteFileUnshift(c) ==
    /\ active = c
    /\ pc[c] = "route"
    /\ LET r == getFileNameAndLanguage(files[c][fileIdx[c]], BasePath)
       IN  IF r.lang = NoLang
           THEN UNCHANGED <<filenames, queue>>
           ELSE /\ filenames' = [filenames EXCEPT ![c] = <<r.filename>> \o @]
                /\ IF ~HasParser(r.lang)
                   THEN UNCHANGED queue
                   ELSE queue' = [queue EXCEPT
                                    ![r.lang] = AddFile(@, r.filename, BasePath)]
    /\ fileIdx' = [fileIdx EXCEPT ![c] = @ + 1]
    /\ pc' = [pc EXCEPT ![c] = IF fileIdx[c] = Len(files[c]) THEN "issue" ELSE @]
    /\ UNCHANGED <<tree, fresh, files, parserIdx, calls, issued, promise, after,
                   orphans, active>>
    /\ UNCHANGED <<parsers, probe>>

\* a routing loop that does not move on from a file without a recognized
\* language
RouteFileStuck(c) ==
    /\ active = c
    /\ pc[c] = "route"
    /\ LET r == getFileNameAndLanguage(files[c][fileIdx[c]], BasePath)
       IN  IF r.lang = NoLang
           THEN UNCHANGED <<filenames, queue, fileIdx, pc>>
           ELSE /\ filenames' = [filenames EXCEPT ![c] = Append(@, r.filename)]
                /\ IF ~HasParser(r.lang)
                   THEN UNCHANGED queue
                   ELSE queue' = [queue EXCEPT
                                    ![r.lang] = AddFile(@, r.filename, BasePath)]
                /\ fileIdx' = [fileIdx EXCEPT ![c] = @ + 1]
                /\ pc' = [pc EXCEPT ![c] =
                              IF fileIdx[c] = Len(files[c]) THEN "issue" ELSE @]
    /\ UNCHANGED <<tree, fresh, files, parserIdx, calls, issued, promise, after,
                   orphans, active>>
    /\ UNCHANGED <<parsers, probe>>

RouteFile(c) ==
    /\ active = c
    /\ pc[c] = "route"
    /\ LET r == getFileNameAndLanguage(files[c][fileIdx[c]], BasePath)
       IN  IF r.lang = NoLang
           THEN UNCHANGED <<filenames, queue>>
           ELSE /\ filenames' = [filenames EXCEPT ![c] = Append(@, r.filename)]
                /\ IF ~HasParser(r.lang)
                   THEN UNCHANGED queue
                   ELSE queue' = [queue EXCEPT
                                    ![r.lang] = AddFile(@, r.filename, BasePath)]
    /\ fileIdx' = [fileIdx EXCEPT ![c] = @ + 1]
    /\ pc' = [pc EXCEPT ![c] = IF fileIdx[c] = Len(files[c]) THEN "issue" ELSE @]
    /\ UNCHANGED <<tree, fresh, files, parserIdx, calls, issued, promise, after,
                   orphans, active>>
    /\ UNCHANGED <<parsers, probe>>

\* the plausible slip of the fan-out: only backends with queued work parse
IssueParseQueuedOnly(c) ==
    /\ active = c
    /\ pc[c] = "issue"
    /\ LET l == Registered[parserIdx[c]]
       IN  IF queue[l] = <<>>
           THEN /\ calls' = [calls EXCEPT ![c][l] = [st |-> "ok", data |-> <<>>]]
                /\ UNCHANGED issued
           ELSE /\ calls' = [calls EXCEPT ![c][l] = ParseCall(queue[l])]
                /\ issued' = [issued EXCEPT ![c][l] = @ + 1]
    /\ IF parserIdx[c] = Len(Registered)
       THEN /\ pc' = [pc EXCEPT ![c] = "joined"]
            /\ active' = NoCaller
            /\ parserIdx' = [parserIdx EXCEPT ![c] = 1]
       ELSE /\ parserIdx' = [parserIdx EXCEPT ![c] = @ + 1]
            /\ UNCHANGED <<pc, active>>
    /\ UNCHANGED <<tree, fresh, files, fileIdx, filenames, promise, after, queue,
                   orphans>>
    /\ UNCHANGED <<parsers, probe>>

\* one p.Parse() of the map over Parser.parsers.values(), line 113; after
\* the last one the run suspends in `await Promise.all`, line 114
IssueParse(c) ==
    /\ active = c
    /\ pc[c] = "issue"
    /\ LET l == Registered[parserIdx[c]]
       IN  /\ calls' = [calls EXCEPT ![c][l] = ParseCall(queue[l])]
           /\ issued' = [issued EXCEPT ![c][l] = @ + 1]
    /\ IF parserIdx[c] = Len(Registered)
       THEN /\ pc' = [pc EXCEPT ![c] = "joined"]
            /\ active' = NoCaller
            /\ parserIdx' = [parserIdx EXCEPT ![c] = 1]
       ELSE /\ parserIdx' = [parserIdx EXCEPT ![c] = @ + 1]
            /\ UNCHANGED <<pc, active>>
    /\ UNCHANGED <<tree, fresh, files, fileIdx, filenames, promise, after, queue,
                   orphans>>
    /\ UNCHANGED <<parsers, probe>>

\* a pending Parse() of caller c's run settles: it resolves with the
\* records of the files it took, or rejects; the backend's queue is cleared
SettleParse(c, l, ok) ==
    /\ active = NoCaller
    /\ calls[c][l].st = "pending"
    /\ calls' = [calls EXCEPT ![c][l] =
                    IF ok THEN [st |-> "ok", data |-> ParseResult(l, @.data)]
                    ELSE [st |-> "failed", data |-> <<>>]]
    /\ queue' = [queue EXCEPT ![l] = <<>>]
    /\ UNCHANGED <<pc, tree, fresh, files, fileIdx, parserIdx, filenames, issued,
                   promise, after, orphans, active>>
    /\ UNCHANGED <<parsers, probe>>

\* a pending Parse() of a run its caller let go settles
SettleOrphan(l) ==
    /\ active = NoCaller
    /\ orphans[l] > 0
    /\ orphans' = [orphans EXCEPT ![l] = @ - 1]
    /\ queue' = [queue EXCEPT ![l] = <<>>]
    /\ UNCHANGED <<pc, tree, fresh, files, fileIdx, parserIdx, filenames, calls,
                   issued, promise, after, active>>
    /\ UNCHANGED <<parsers, probe>>

\* a flattening that puts the list of a later promise in front
RECURSIVE FlatReversed(_, _)
FlatReversed(cs, order) ==
    IF order = <<>> THEN <<>>
    ELSE FlatReversed(cs, Tail(order)) \o cs[Head(order)].data

\* a flattening that rewrites the file name of the records it copies
RECURSIVE FlatRenamed(_, _)
FlatRenamed(cs, order) ==
    IF order = <<>> THEN <<>>
    ELSE [i \in 1..Len(cs[Head(order)].data) |->
             [cs[Head(order)].data[i] EXCEPT !.fileName = Tail(Tail(@))]]
         \o FlatRenamed(cs, Tail(order))

\* a flattening that keeps the list of the first promise alone
FlatHeadOnly(cs, order) ==
    IF order = <<>> THEN <<>> ELSE cs[Head(order)].data

\* parserResults.flat(): the results in the order of the promises
RECURSIVE Flat(_, _)
Flat(cs, order) ==
    IF order = <<>> THEN <<>>
    ELSE cs[Head(order)].data \o Flat(cs, Tail(order))

\* Promise.all(parserPromises) is rejected as soon as one promise is rejected
PromiseAllRejected(cs) == \E l \in parsers : cs[l].st = "failed"

\* the plausible slip of the join: every promise has settled, in either way
PromiseAllSettled(cs) == \A l \in parsers : cs[l].st \in {"ok", "failed"}

\* Promise.all(parserPromises) is fulfilled when all promises are fulfilled
PromiseAllFulfilled(cs) == \A l \in parsers : cs[l].st = "ok"

\* a join that is not resumed by a rejection
JoinFulfilledOnly(c) ==
    /\ active = NoCaller
    /\ pc[c] = "joined"
    /\ PromiseAllFulfilled(calls[c])
    /\ pc' = [pc EXCEPT ![c] = "returned"]
    /\ promise' = [promise EXCEPT ![c] =
                      Fulfilled(filenames[c], Flat(calls[c], Registered))]
    /\ UNCHANGED <<tree, fresh, files, fileIdx, parserIdx, filenames, calls,
                   issued, after, queue, orphans, active>>
    /\ UNCHANGED <<parsers, probe>>

\* the continuation of `await Promise.all(...)`, lines 114-116
Join(c) ==
    /\ active = NoCaller
    /\ pc[c] = "joined"
    /\ \/ /\ PromiseAllRejected(calls[c])
          /\ pc' = [pc EXCEPT ![c] = "failed"]
          /\ promise' = [promise EXCEPT ![c] = Rejected]
       \/ /\ PromiseAllFulfilled(calls[c])
          /\ pc' = [pc EXCEPT ![c] = "returned"]
          /\ promise' = [promise EXCEPT ![c] =
                            Fulfilled(filenames[c], Flat(calls[c], Registered))]
    /\ UNCHANGED <<tree, fresh, files, fileIdx, parserIdx, filenames, calls,
                   issued, after, queue, orphans, active>>
    /\ UNCHANGED <<parsers, probe>>

\* the caller has taken the outcome of its run and lets the run go; the
\* run's Parse() calls that are still pending stay in flight
Release(c) ==
    /\ active = NoCaller
    /\ pc[c] \in {"returned", "failed"}
    /\ \A l \in Language :
          orphans[l] + (IF calls[c][l].st = "pending" THEN 1 ELSE 0) <= MaxOrphans
    /\ pc' = [pc EXCEPT ![c] = "idle"]
    /\ tree' = [tree EXCEPT ![c] = {}]
    /\ fresh' = [fresh EXCEPT ![c] = TRUE]
    /\ files' = [files EXCEPT ![c] = <<>>]
    /\ orphans' = [l \in Language |->
                      orphans[l] + (IF calls[c][l].st = "pending" THEN 1 ELSE 0)]
    /\ calls' = [calls EXCEPT ![c] = [l \in Language |-> NoCall]]
    /\ issued' = [issued EXCEPT ![c] = [l \in Language |-> 0]]
    /\ filenames' = [filenames EXCEPT ![c] = <<>>]
    /\ promise' = [promise EXCEPT ![c] = Pending]
    /\ after' = [d \in Callers |-> IF d = c THEN {} ELSE after[d] \ {c}]
    /\ fileIdx' = [fileIdx EXCEPT ![c] = 1]
    /\ UNCHANGED <<parserIdx, queue, active>>
    /\ UNCHANGED <<parsers, probe>>

\* the trees made of a.js and b.py alone
FlatTrees == {t \in Trees : t \subseteq {3, 5}}

\* the steps of caller c, whose runs scan the trees of ts
Run(c, ts) ==
    \/ \E t \in ts : StartRun(c, t)
    \/ RouteFile(c)
    \/ IssueParse(c)
    \/ \E l \in Language, ok \in BOOLEAN : SettleParse(c, l, ok)
    \/ Join(c)
    \/ Release(c)

\* two callers whose runs may overlap, on flat trees
Next ==
    \/ \E c \in Callers : Run(c, FlatTrees)
    \/ \E l \in Language : SettleOrphan(l)

Spec == Init /\ [][Next]_vars

\* one caller, one run after the other, on every tree
NextSeq ==
    \/ Run("A", Trees)
    \/ \E l \in Language : SettleOrphan(l)

SpecSeq == Init /\ [][NextSeq]_vars

\* a registry from which the host program has removed backends; at least
\* one backend stays registered
InitReg ==
    /\ InitRuns
    /\ parsers \in (SUBSET Language) \ {{}}
    /\ probe = NoProbe

\* one caller, one run after the other, on flat trees
NextReg ==
    \/ Run("A", FlatTrees)
    \/ \E l \in Language : SettleOrphan(l)

SpecReg == InitReg /\ [][NextReg]_vars

\* the steps of caller c when no Parse() fails
RunOk(c, ts) ==
    \/ \E t \in ts : StartRun(c, t)
    \/ RouteFile(c)
    \/ IssueParse(c)
    \/ \E l \in Language : SettleParse(c, l, TRUE)
    \/ Join(c)
    \/ Release(c)

\* two callers whose runs may overlap, on flat trees; every Parse() that
\* settles resolves
NextOverlap == \E c \in Callers : RunOk(c, FlatTrees)

SpecOverlap == Init /\ [][NextOverlap]_vars

\* the trees made of a.js, b.py and c.txt alone
LiveTrees == {t \in Trees : t \subseteq {3, 5, 6}}

\* one caller, one run after the other
NextLive ==
    \/ Run("A", LiveTrees)
    \/ \E l \in Language : SettleOrphan(l)

\* the event loop resumes the call once Promise.all has settled; nothing
\* makes a Parse() settle
JoinFairness == WF_vars(Join("A"))

SpecLive == Init /\ [][NextLive]_vars /\ JoinFairness

\* the trees made of a.js, b.py, c.txt and m.js alone
RouteTrees == {t \in Trees : t \subseteq {3, 5, 6, 9}}

\* one caller, one run after the other; every Parse() that settles resolves
NextRoute == RunOk("A", RouteTrees)

\* forEach goes on to the next file when the callback returns
RouteFairness == WF_vars(RouteFile("A"))

SpecRoute == Init /\ [][NextRoute]_vars /\ RouteFairness

(***************************************************************************)
(* The classifier on its own: the path the walker builds for a file that   *)
(* lies under the directories dirs of the scanned directory basePath, and  *)
(* the classification of that path against basePath.  Paths are POSIX.     *)
(***************************************************************************)
\* the scanned directory as the caller may write it
BasePaths ==
    { <<"/", "r">>,
      <<"r">>,
      <<"r", "/">>,
      <<".", "/", "r">>,
      <<"r", "\\", "x">>,
      <<".">> }

\* the directories between the scanned directory and the file
ProbeDirs == { <<>>, << <<"d">> >>, << <<"r">> >> }

\* the names of the files
ProbeNames ==
    { <<"a", ".", "j", "s">>,
      <<"b", ".", "P", "Y">>,
      <<"e", ".", "C", "P", "P">>,
      <<"s", ".", "c", "s">>,
      <<"j", ".", "J", "a", "v", "a">>,
      <<"c", ".", "t", "x", "t">>,
      <<"j", "s">>,
      <<"c", "p", "p">> }

\* the nested calls of recursivelyGetFiles down to a file: one path.join
\* for each component below currDir
RECURSIVE Descend(_, _)
Descend(currDir, comps) ==
    IF comps = <<>> THEN currDir
    ELSE Descend(PathJoin(currDir, Head(comps)), Tail(comps))

\* the path getAllFiles(basePath) returns for the file name under dirs
WalkedPath(basePath, dirs, name) ==
    Descend(StrReplace(basePath, <<"\\">>, <<"/">>), Append(dirs, name))

InitClassify ==
    /\ InitRuns
    /\ parsers = Language
    /\ \E b \in BasePaths, ds \in ProbeDirs, n \in ProbeNames :
           probe = [op |-> "file", basePath |-> b, dirs |-> ds, name |-> n]

\* the callback of ParseFiles classifies the walked path of the file
Classify ==
    /\ probe.op = "file"
    /\ LET filepath == WalkedPath(probe.basePath, probe.dirs, probe.name)
       IN  probe' = [op |-> "classified", basePath |-> probe.basePath,
                     dirs |-> probe.dirs, name |-> probe.name,
                     filepath |-> filepath,
                     res |-> getFileNameAndLanguage(filepath, probe.basePath)]
    /\ UNCHANGED <<pc, tree, fresh, files, fileIdx, parserIdx, filenames, calls,
                   issued, promise, after, queue, orphans, active, parsers>>

NextClassify == Classify

SpecClassify == InitClassify /\ [][NextClassify]_vars

(***************************************************************************)
(* The walker on its own: getAllFiles on a tree some entries of which      *)
(* vanish while it is walked.                                              *)
(***************************************************************************)
\* the races a walk of tree t can meet
Races(t) ==
    {[stat |-> S, list |-> L] :
        S \in SUBSET t, L \in SUBSET {n \in t : Entries[n].isDirectory}}

InitWalk ==
    /\ InitRuns
    /\ parsers = Language
    /\ \E t \in Trees : \E r \in Races(t) :
           probe = [op |-> "tree", tree |-> t, race |-> r]

\* files = getAllFiles(basePath)
Walk ==
    /\ probe.op = "tree"
    /\ probe' = [op |-> "walked", tree |-> probe.tree, race |-> probe.race,
                 res |-> getAllFiles(probe.tree, probe.race, BasePath),
                 listed |-> <<0>> \o readdirCalls(probe.tree, probe.race,
                                                  readdirSync(probe.tree, 0))]
    /\ UNCHANGED <<pc, tree, fresh, files, fileIdx, parserIdx, filenames, calls,
                   issued, promise, after, queue, orphans, active, parsers>>

NextWalk == Walk

SpecWalk == InitWalk /\ [][NextWalk]_vars

(***************************************************************************)
(* Properties                                                              *)
(***************************************************************************)
Range(seq) == {seq[i] : i \in 1..Len(seq)}

NoDuplicates(seq) == Cardinality(Range(seq)) = Len(seq)

\* the name begins with the literal text ".git"
IsDotGit(name) ==
    /\ Len(name) >= 4
    /\ SubSeq(name, 1, 4) = <<".", "g", "i", "t">>

\* entry n is version-control metadata or lies below such a directory
RECURSIVE UnderDotGit(_)
UnderDotGit(n) ==
    IF n = 0 THEN FALSE
    ELSE IsDotGit(Entries[n].name) \/ UnderDotGit(Entries[n].parent)

\* the name of entry n relative to the root, with the current-directory marker
RECURSIVE RelativeName(_)
RelativeName(n) ==
    IF n = 0 THEN <<".">>
    ELSE RelativeName(Entries[n].parent) \o <<"/">> \o Entries[n].name

\* the regular files of tree t that are not version-control metadata
RegularFiles(t) == {n \in t : ~Entries[n].isDirectory /\ ~UnderDotGit(n)}

\* C1: the filenames of a successful run are exactly the relative names of
\* the regular files of the tree that are not named .git* and not under a
\* .git* directory, none missing and nothing else present.
C1_FilenamesComplete ==
    \A c \in Callers :
        promise[c].kind = "fulfilled" =>
            /\ Range(promise[c].filenames) =
                   {RelativeName(n) : n \in RegularFiles(tree[c])}
            /\ NoDuplicates(promise[c].filenames)

\* the relative names of the files of caller c's run that the routing loop
\* has passed and that have no recognized extension
UnsupportedPassed(c) ==
    {getFileNameAndLanguage(files[c][i], BasePath).filename :
        i \in {j \in 1..Len(files[c]) :
                 /\ j < fileIdx[c]
                 /\ getFileNameAndLanguage(files[c][j], BasePath).lang = NoLang}}

\* a.js, b.py and c.txt in the root
ScenarioA == {3, 5, 6}

NameAJs == <<".", "/", "a", ".", "j", "s">>
NameBPy == <<".", "/", "b", ".", "p", "y">>
NameCTxt == <<".", "/", "c", ".", "t", "x", "t">>

C3_NoPartialResult ==
    \A c \in Callers :
        /\ promise[c].kind = "fulfilled" =>
              \A l \in Language : calls[c][l].st = "ok"
        /\ ((\E l \in Language : calls[c][l].st = "failed")
              /\ pc[c] \in {"returned", "failed"}) => promise[c] = Rejected

\* a run was rejected although one of its backends had returned records
C3_Witness ==
    \E c \in Callers :
        /\ promise[c].kind = "rejected"
        /\ \E l \in Language : calls[c][l].st = "failed"
        /\ \E l \in Language : calls[c][l].st = "ok" /\ calls[c][l].data # <<>>
        /\ filenames[c] # <<>>

\* C4: a run that has completed, with a result or with a failure, has no
\* Parse() call of its own that has not settled.
C4_JoinWaitsForAll ==
    \A c \in Callers :
        pc[c] \in {"returned", "failed"} =>
            \A l \in Language : calls[c][l].st # "pending"

\* a Parse() call in flight on the backend of language l
InFlight(l) ==
    \/ orphans[l] > 0
    \/ \E c \in Callers : calls[c][l].st = "pending"

\* C5: no AddFile is performed on a backend while a Parse() call on that
\* backend is in flight.
C5_NoAddFileInFlight ==
    [][\A l \in Language : Len(queue'[l]) > Len(queue[l]) => ~InFlight(l)]_vars

\* C6: every record a run returns names a file of that run's filenames.
C6_RecordsNamed ==
    \A c \in Callers :
        promise[c].kind = "fulfilled" =>
            \A k \in 1..Len(promise[c].result) :
                promise[c].result[k].fileName \in Range(promise[c].filenames)

\* C7: whenever no run is in progress every backend queue is empty.
C7_QueuesEmptyWhenIdle ==
    (\A c \in Callers : pc[c] \in {"idle", "returned", "failed"}) =>
        \A l \in Language : queue[l] = <<>>

C9_RouteBeforeParse ==
    [][\A c \in Callers :
          /\ pc[c] \in {"route", "issue"} => active = c
          /\ pc'[c] \in {"route", "issue"} => active' = c
          /\ (active = c /\ \E l \in Language : Len(queue'[l]) > Len(queue[l]))
                => \A l \in Language : issued[c][l] = 0
          /\ (\E l \in Language : issued'[c][l] > issued[c][l])
                => fileIdx[c] > Len(files[c])]_vars

\* a run has routed two files and issued Parse() on every backend
C9_Witness ==
    \E c \in Callers :
        /\ pc[c] = "joined"
        /\ Len(filenames[c]) = 2
        /\ \A l \in Language : issued[c][l] = 1

\* C10: a run that follows a fulfilled run over the same tree returns the
\* same filenames and the same set of records.
C10_SuccessiveRunsAgree ==
    \A c \in Callers : \A d \in after[c] :
        (/\ promise[c].kind = "fulfilled"
         /\ promise[d].kind = "fulfilled"
         /\ tree[c] = tree[d]) =>
            /\ promise[c].filenames = promise[d].filenames
            /\ Range(promise[c].result) = Range(promise[d].result)


\* the path of a file relative to the scanned directory, behind "./"
RootRelative(dirs, name) == <<".", "/">> \o JoinWith(Append(dirs, name), "/")

\* C11: whatever way the scanned directory is written, the relativeName the
\* classifier returns for a walked path is "./" followed by the path of the
\* file relative to the scanned directory
C11_RelativeNameRooted ==
    probe.op = "classified" =>
        probe.res.filename = RootRelative(probe.dirs, probe.name)

\* the text after the last dot of a file name, in lower case; none without
\* a dot
OwnExtension(name) ==
    IF IndexOf(name, <<".">>) = 0 THEN <<>> ELSE ToLowerCase(SplitPop(name, "."))

\* the language of an extension
LanguageOf(ext) ==
    IF ext = <<"p", "y">> THEN PYTHON
    ELSE IF ext = <<"j", "s">> THEN JS
    ELSE IF ext = <<"c", "p", "p">> THEN CPP
    ELSE IF ext = <<"c", "s">> THEN CSHARP
    ELSE IF ext = <<"j", "a", "v", "a">> THEN JAVA
    ELSE NoLang

\* C12: the language the classifier returns is the language of the own
\* extension of the file, compared without regard to case, and it is
\* unsupported for any other extension and for a file without extension
C12_LanguageByOwnExtension ==
    probe.op = "classified" =>
        probe.res.lang = LanguageOf(OwnExtension(probe.name))

\* the path of entry n below the scanned directory
RECURSIVE AbsolutePath(_)
AbsolutePath(n) ==
    IF n = 0 THEN BasePath
    ELSE AbsolutePath(Entries[n].parent) \o <<"/">> \o Entries[n].name

\* C13: a walk that meets no race returns exactly the regular files none of
\* whose path components below the root begins with the literal text .git
C13_SkipsOnlyDotGit ==
    (probe.op = "walked" /\ probe.race = NoRace) =>
        /\ Range(probe.res) = {AbsolutePath(n) : n \in RegularFiles(probe.tree)}
        /\ NoDuplicates(probe.res)

\* entry n or a directory above it vanishes during the walk
RECURSIVE Vanishes(_, _)
Vanishes(n, race) ==
    IF n = 0 THEN FALSE
    ELSE n \in race.stat \/ n \in race.list \/ Vanishes(Entries[n].parent, race)

\* the entries of tree t that stay in place during the walk
Stable(t, race) == {n \in t : ~Vanishes(n, race)}

OfLanguage(seq, l) == SelectSeq(seq, LAMBDA r : r.languageTag = l)

\* C15: a successful run over an empty directory returns no filename and no
\* record, and a backend to which the run routed no file contributes no
\* record to the result of the run, whatever earlier runs did
C15_UnroutedContributeNothing ==
    \A c \in Callers :
        promise[c].kind = "fulfilled" =>
            /\ tree[c] = {} =>
                   promise[c].filenames = <<>> /\ promise[c].result = <<>>
            /\ \A l \in Language :
                   Routed[tree[c]][l] = 0 => OfLanguage(promise[c].result, l) = <<>>

\* the file name of a queued file cannot be extracted
IsMalformed(fileName) == SplitPop(fileName, "/") \in Malformed

\* C16: a file that cannot be extracted does not take away the records of
\* the other files of the run: a successful run returns a record of every
\* well-formed file it routed
C16_MalformedFileIsolated ==
    \A c \in Callers :
        promise[c].kind = "fulfilled" =>
            \A i \in 1..Len(promise[c].filenames) :
                ~IsMalformed(promise[c].filenames[i]) =>
                    \E k \in 1..Len(promise[c].result) :
                        promise[c].result[k].fileName = promise[c].filenames[i]

\* a run over a.js and the malformed m.js has succeeded with the record of
\* a.js and no record of m.js
C16_Witness ==
    \E c \in Callers :
        /\ promise[c].kind = "fulfilled"
        /\ tree[c] = {3, 9}
        /\ promise[c].filenames = <<RelativeName(3), RelativeName(9)>>
        /\ Len(promise[c].result) = 1
        /\ promise[c].result[1].fileName = RelativeName(3)

\* C19: the records of a successful run are the lists its Parse() calls
\* returned, each record once: as many records as the lists hold together,
\* and for each backend its list, in order
C19_RecordsAreTheParseLists ==
    \A c \in Callers :
        promise[c].kind = "fulfilled" =>
            /\ \A l \in Language :
                   OfLanguage(promise[c].result, l) = calls[c][l].data
            /\ \A k \in 1..Len(promise[c].result) :
                   promise[c].result[k].languageTag \in Language

\* a run has succeeded with records of two backends
C19_Witness ==
    \E c \in Callers :
        /\ promise[c].kind = "fulfilled"
        /\ calls[c][JS].data # <<>>
        /\ calls[c][PYTHON].data # <<>>
        /\ Len(promise[c].result) = Len(calls[c][JS].data) + Len(calls[c][PYTHON].data)

\* the regular files of flat tree t that have the extension of language l,
\* in the order of the walk
FilesOf(t, ls) ==
    SortedSeq({n \in t : /\ ~Entries[n].isDirectory
                         /\ LanguageOf(OwnExtension(Entries[n].name)) \in ls})

\* C18: when the registry has no backend for the language of a file, the
\* name of the file is still in filenames, no AddFile is made for it, and
\* the files after it are routed: once the routing loop is over, filenames
\* holds every file of a recognized language, the queue of a language
\* without backend is empty, and the queue of a registered backend ends
\* with the files the run routed to it
C18_MissingBackendSkipped ==
    \A c \in Callers :
        /\ pc[c] \in {"issue", "joined", "returned"} =>
               LET ns == FilesOf(tree[c], Language)
               IN  filenames[c] = [i \in 1..Len(ns) |-> RelativeName(ns[i])]
        /\ \A l \in Language \ parsers : queue[l] = <<>>
        /\ pc[c] = "issue" =>
               \A l \in parsers :
                   LET ns == FilesOf(tree[c], {l})
                       skip == Len(queue[l]) - Len(ns)
                   IN  /\ skip >= 0
                       /\ \A i \in 1..Len(ns) :
                              queue[l][skip + i].fileName = RelativeName(ns[i])

\* the registry has no Javascript backend; a run over a.js and b.py has
\* succeeded with both names and with the record of b.py alone
C18_Witness ==
    \E c \in Callers :
        /\ JS \notin parsers
        /\ PYTHON \in parsers
        /\ tree[c] = {3, 5}
        /\ promise[c].kind = "fulfilled"
        /\ promise[c].filenames = <<RelativeName(3), RelativeName(5)>>
        /\ Len(promise[c].result) = 1
        /\ promise[c].result[1].fileName = RelativeName(5)

\* the language of the walked path or relative name f, by the extension of
\* its last component
LanguageOfPath(f) == LanguageOf(OwnExtension(SplitPop(f, "/")))

\* the relative name of the walked path f
NameOfPath(f) == <<".">> \o SubSeq(f, Len(BasePath) + 1, Len(f))

\* C21: the routing of one walked file of a recognized language appends
\* the file, under its relative name and with basePath, to the queue of the
\* backend of its language and leaves every other queue as it is; the
\* routing of any other file leaves every queue as it is; and no queue
\* grows in any other step
C21_OneAddFilePerFile ==
    [][\A c \in Callers :
          /\ (pc[c] = "route" /\ fileIdx'[c] = fileIdx[c] + 1) =>
                 LET f == files[c][fileIdx[c]]
                     l == LanguageOfPath(f)
                 IN  IF l = NoLang THEN queue' = queue
                     ELSE queue' = [queue EXCEPT ![l] =
                              Append(@, [fileName |-> NameOfPath(f),
                                         basePath |-> BasePath])]
          /\ (\E l \in Language : Len(queue'[l]) > Len(queue[l])) =>
                 \E d \in Callers : pc[d] = "route" /\ fileIdx'[d] = fileIdx[d] + 1]_vars

\* a run over a.js and m.js has routed both to the Javascript backend, in
\* the order of the walk, and to no other backend
C21_Witness ==
    \E c \in Callers :
        /\ pc[c] = "issue"
        /\ tree[c] = {3, 9}
        /\ queue = [l \in Language |->
               IF l = JS
               THEN <<[fileName |-> RelativeName(3), basePath |-> BasePath],
                      [fileName |-> RelativeName(9), basePath |-> BasePath]>>
               ELSE <<>>]

\* C22: the registry holds a backend for each of the five language tags
\* whatever the runs do, and no two tags share a backend: the queue of a
\* tag holds files of the language of that tag alone
C22_RegistryFixed ==
    /\ parsers = {JS, PYTHON, CPP, CSHARP, JAVA}
    /\ \A l \in Language : \A i \in 1..Len(queue[l]) :
           LanguageOfPath(queue[l][i].fileName) = l

\* a run has routed e.CPP to the C++ backend alone and has returned
C22_Witness ==
    \E c \in Callers :
        /\ pc[c] = "returned"
        /\ tree[c] = {7, 8}
        /\ promise[c].result # <<>>
        /\ \A k \in 1..Len(promise[c].result) :
               promise[c].result[k].languageTag = CPP
        /\ parsers = Language

\* the records the Parse() calls of the run of caller c returned
Returned(c) == UNION {Range(calls[c][l].data) : l \in Language}

\* C23: every record of the result of a successful run is, field by field,
\* a record a Parse() call of the run returned
C23_RecordsUnchanged ==
    \A c \in Callers :
        promise[c].kind = "fulfilled" =>
            \A k \in 1..Len(promise[c].result) :
                promise[c].result[k] \in Returned(c)

\* a run has succeeded with a record of a.js as the Javascript backend
\* returned it
C23_Witness ==
    \E c \in Callers :
        /\ promise[c].kind = "fulfilled"
        /\ calls[c][JS].st = "ok"
        /\ Len(calls[c][JS].data) = 1
        /\ promise[c].result = calls[c][JS].data
        /\ promise[c].result[1].fileName = RelativeName(3)

FileNamesOf(seq) == [i \in 1..Len(seq) |-> seq[i].fileName]

\* C25: runs that overlap on the shared registry do not interfere: the
\* result of a successful run holds, for every backend, the records of
\* the files this run routed to it, and of no other file
C25_RunsDoNotInterfere ==
    \A c \in Callers :
        promise[c].kind = "fulfilled" =>
            \A l \in Language :
                LET ns == FilesOf(tree[c], {l})
                IN  FileNamesOf(OfLanguage(promise[c].result, l)) =
                        [i \in 1..Len(ns) |-> RelativeName(ns[i])]

\* C26: the records of a successful run are the list of the Javascript
\* backend, then those of the Python, C++, C# and Java backends, each as
\* its Parse() returned it, in whatever order the Parse() calls settled
C26_RecordsInRegistryOrder ==
    \A c \in Callers :
        promise[c].kind = "fulfilled" =>
            promise[c].result =
                calls[c][JS].data \o calls[c][PYTHON].data \o calls[c][CPP].data
                    \o calls[c][CSHARP].data \o calls[c][JAVA].data

\* a run over a.js and b.py has succeeded with the record of a.js in front
\* of the record of b.py
C26_Witness ==
    \E c \in Callers :
        /\ promise[c].kind = "fulfilled"
        /\ tree[c] = {3, 5}
        /\ Len(promise[c].result) = 2
        /\ promise[c].result[1].languageTag = JS
        /\ promise[c].result[2].languageTag = PYTHON

\* every Parse() call of the run of caller c has settled
AllSettled(c) == \A l \in parsers : calls[c][l].st \in {"ok", "failed"}

\* the run of caller c has returned or failed
RunSettled(c) == pc[c] \in {"returned", "failed"}

\* C27: a run whose Parse() calls have all settled settles; and as long as
\* no Parse() call of a run has failed and one of them has not settled, the
\* run has neither returned nor failed
C27_RunSettlesWithItsParses ==
    /\ \A c \in Callers : (pc[c] = "joined" /\ AllSettled(c)) ~> RunSettled(c)
    /\ [](\A c \in Callers :
             ((\A l \in parsers : calls[c][l].st # "failed")
                 /\ (\E l \in parsers : calls[c][l].st = "pending"))
             => ~RunSettled(c))

\* the run over a.js and b.py has returned after its two pending Parse()
\* calls resolved
C27_Witness ==
    \E c \in Callers :
        /\ pc[c] = "returned"
        /\ tree[c] = {3, 5}
        /\ AllSettled(c)
        /\ calls[c][JS].data # <<>>
        /\ calls[c][PYTHON].data # <<>>

\* the number of files in the queues of all backends
RECURSIVE TotalQueued(_)
TotalQueued(ls) ==
    IF ls = {} THEN 0
    ELSE LET l == CHOOSE x \in ls : TRUE
         IN  Len(queue[l]) + TotalQueued(ls \ {l})

\* C29: the routing loop of a run comes to its end, it never goes past the
\* walked files, and the files a run has enqueued on backends whose queues
\* were empty when it began are no more than the files it has gone through
C29_RoutingTerminates ==
    /\ \A c \in Callers : (pc[c] = "route") ~> (pc[c] = "issue")
    /\ [](\A c \in Callers :
             /\ fileIdx[c] <= Len(files[c]) + 1
             /\ Len(filenames[c]) <= Len(files[c])
             /\ (fresh[c] /\ active = c) =>
                    TotalQueued(Language) <= fileIdx[c] - 1)

\* the routing loop over a.js, b.py and c.txt has ended with two files
\* enqueued
C29_Witness ==
    \E c \in Callers :
        /\ pc[c] = "issue"
        /\ tree[c] = {3, 5, 6}
        /\ fresh[c]
        /\ fileIdx[c] = 4
        /\ TotalQueued(Language) = 2

\* the walked files the routing loop of caller c has gone through
GoneThrough(c) ==
    SubSeq(files[c], 1, IF pc[c] = "route" THEN fileIdx[c] - 1 ELSE Len(files[c]))

\* the path or name f has a recognized language
Recognized(f) == LanguageOfPath(f) # NoLang

\* C28: filenames holds the relative names of the files of a recognized
\* language the routing loop has gone through, one entry per file and in
\* the order of the walker's output; and during the routing loop the files
\* the run has put in the queue of a backend are the names of that language
\* in filenames, so that no file is enqueued whose name is not listed
C28_FilenamesInWalkOrder ==
    \A c \in Callers :
        /\ LET kept == SelectSeq(GoneThrough(c), Recognized)
           IN  filenames[c] = [i \in 1..Len(kept) |-> NameOfPath(kept[i])]
        /\ active = c =>
               \A l \in Language :
                   LET mine == SelectSeq(filenames[c], LAMBDA n : LanguageOfPath(n) = l)
                       skip == Len(queue[l]) - Len(mine)
                   IN  /\ skip >= 0
                       /\ FileNamesOf(SubSeq(queue[l], skip + 1, Len(queue[l]))) = mine

\* the run over a.js, c.txt and m.js has listed a.js and m.js, in this
\* order, and not c.txt, which the walker returned between them
C28_Witness ==
    \E c \in Callers :
        /\ pc[c] = "issue"
        /\ files[c] = <<AbsolutePath(3), AbsolutePath(6), AbsolutePath(9)>>
        /\ filenames[c] = <<RelativeName(3), RelativeName(9)>>

=============================================================================
